---------------------------- MODULE Spec2Model ----------------------------
(***************************************************************************)
(* A model of the unity-random crate: the Xorshift128 stream core          *)
(* (src/src/crypto.rs) and the distributions built on it                   *)
(* (src/src/random.rs).                                                    *)
(*                                                                         *)
(* Number representation.  TLC's integers are 32-bit signed, so            *)
(*   - an i32 of the program is a TLC integer;                             *)
(*   - a u32 of the program is a record [hi, lo] of its two 16-bit halves; *)
(*   - an f32/f64 of the program is an exact rational [neg, num, den] over *)
(*     arbitrary-precision naturals (sequences of base-10^4 limbs).  The   *)
(*     binary rounding of each float operation is not modelled; the value  *)
(*     returned by precision_f32 is the decimal [m, e] = m * 10^(-e).      *)
(*   - sqrt, sin, cos and powf have no rational model: the operations that *)
(*     use them return the rational values they feed into those functions. *)
(* Integer overflow panics when the crate is built with overflow checks    *)
(* (the dev and test profiles) and wraps otherwise (the release profile):  *)
(* overflow_checks is chosen in Init and both builds are explored.         *)
(*                                                                         *)
(* The steps of a function are operators of their own (the step's name,    *)
(* then the values it works on), so that a value used more than once is a  *)
(* parameter and is computed once.                                         *)
(***************************************************************************)
EXTENDS Integers, Sequences, FiniteSets, TLC

VARIABLES
    overflow_checks,  \* the build profile: TRUE panics on integer overflow
    state,            \* state[h]: the four u32 words of handle h (Random.state)
    log,              \* log[h]: the seed of h's last init_state and the calls since
    last,             \* the last call: op, handle, args, the state it read, outcome
    panicked          \* TRUE once a call has panicked (the run is over)

vars == <<overflow_checks, state, log, last, panicked>>

----------------------------------------------------------------------------
(* Bounds of the model *)

\* calls on a handle since its state was last set, under Spec
MaxCalls == 1
\* calls on a handle since its state was last set, under SpecSeeded
MaxSeededCalls == 2
\* range_int draws per handle after init_state under SpecVectors
MaxDraws == 5
\* float arguments are the integers -MaxFloatArg .. MaxFloatArg
MaxFloatArg == 1
\* hue bounds are the integers -MaxHue .. MaxHue
MaxHue == 2

----------------------------------------------------------------------------
(* i32 and u32 arithmetic *)

MaxI32 == 2147483647
MinI32 == -MaxI32 - 1
RECURSIVE Pow2(_)
Pow2(n) == IF n = 0 THEN 1 ELSE 2 * Pow2(n - 1)

\* 2^16: a u32 is hi * Half + lo
Half == 256 * 256

\* a u32 from its 16-bit halves
U32(hi, lo) == [hi |-> hi, lo |-> lo]
IsU32(w) == w.hi \in 0..(Half - 1) /\ w.lo \in 0..(Half - 1)
Zero32 == U32(0, 0)

\* `x as u32` for an i32 x (two's complement reinterpretation)
AsU32(x) == U32((x \div Half) % Half, x % Half)

\* `w as i32` for a u32 w
AsI32(w) == IF w.hi < 32768 THEN w.hi * Half + w.lo
            ELSE (w.hi - Half) * Half + w.lo

\* bitwise operators on n-bit naturals
RECURSIVE XorN(_, _, _)
XorN(a, b, n) ==
    IF n = 0 THEN 0
    ELSE ((a + b) % 2) + 2 * XorN(a \div 2, b \div 2, n - 1)

RECURSIVE AndN(_, _, _)
AndN(a, b, n) ==
    IF n = 0 THEN 0
    ELSE ((a % 2) * (b % 2)) + 2 * AndN(a \div 2, b \div 2, n - 1)

\* a ^ b on u32
Xor32(a, b) == U32(XorN(a.hi, b.hi, 16), XorN(a.lo, b.lo, 16))
\* a & b on u32
And32(a, b) == U32(AndN(a.hi, b.hi, 16), AndN(a.lo, b.lo, 16))

\* w << n on u32 (bits shifted out are lost), 0 < n < 16
Shl32(w, n) ==
    U32(((w.hi * Pow2(n)) % Half) + ((w.lo * Pow2(n)) \div Half),
        (w.lo * Pow2(n)) % Half)

\* w >> n on u32, 0 < n < 32
Shr32(w, n) ==
    IF n >= 16 THEN U32(0, w.hi \div Pow2(n - 16))
    ELSE U32(w.hi \div Pow2(n),
             ((w.hi % Pow2(n)) * Pow2(16 - n)) + (w.lo \div Pow2(n)))

\* the four bytes of a u32, least significant first
Bytes(w) == <<w.lo % 256, w.lo \div 256, w.hi % 256, w.hi \div 256>>

\* u32::wrapping_mul: the low 32 bits of a * b, by schoolbook byte products
MulBytes(x, y) ==
    LET c0 == x[1] * y[1]
        c1 == x[1] * y[2] + x[2] * y[1] + (c0 \div 256)
        c2 == x[1] * y[3] + x[2] * y[2] + x[3] * y[1] + (c1 \div 256)
        c3 == x[1] * y[4] + x[2] * y[3] + x[3] * y[2] + x[4] * y[1] + (c2 \div 256)
    IN  U32((c3 % 256) * 256 + (c2 % 256), (c1 % 256) * 256 + (c0 % 256))

WrappingMul(a, b) == MulBytes(Bytes(a), Bytes(b))

\* the u32 `+ 1` of the build: [v: the wrapped sum, overflow: whether it overflowed]
AddOne32(w) ==
    IF w.lo < Half - 1 THEN [v |-> U32(w.hi, w.lo + 1), overflow |-> FALSE]
    ELSE IF w.hi < Half - 1 THEN [v |-> U32(w.hi + 1, 0), overflow |-> FALSE]
    ELSE [v |-> Zero32, overflow |-> TRUE]

\* a < b on u32
Lt32(a, b) == a.hi < b.hi \/ (a.hi = b.hi /\ a.lo < b.lo)

\* a - b on u32, for a >= b
Sub32(a, b) ==
    IF a.lo >= b.lo THEN U32(a.hi - b.hi, a.lo - b.lo)
    ELSE U32(a.hi - b.hi - 1, a.lo + Half - b.lo)

\* (a + b) mod m for 0 <= a, b < m <= MaxI32, without leaving the i32 range
AddMod(a, b, m) == IF a >= m - b THEN a - (m - b) ELSE a + b

\* a variant of RemEuclid32 that reduces with a bit mask, as is right only
\* for a d that is a power of two, less one
RemMask(u, d) == And32(u, d)

\* u32::rem_euclid(u, d), d > 0
RemEuclid32(u, d) ==
    IF d.hi >= 32768
    THEN (IF Lt32(u, d) THEN u ELSE Sub32(u, d))
    ELSE LET m == d.hi * Half + d.lo
             low == (u.hi % 32768) * Half + u.lo
             top == IF u.hi >= 32768 THEN ((MaxI32 % m) + 1) % m ELSE 0
             r == AddMod(top, low % m, m)
         IN  U32(r \div Half, r % Half)

\* whether the i32 subtraction a - b overflows
SubOverflows(a, b) ==
    \/ (b < 0 /\ a > MaxI32 + b)
    \/ (b > 0 /\ a < MinI32 + b)

\* i32::wrapping_sub
WrappingSub(a, b) ==
    IF ~SubOverflows(a, b) THEN a - b
    ELSE IF b < 0 THEN (a - MaxI32 - 1) + (-(b + MaxI32) - 1)
    ELSE (a + MaxI32 + 1) + ((MaxI32 - b) + 1)

\* whether the i32 addition a + b overflows
AddOverflows(a, b) ==
    \/ (b > 0 /\ a > MaxI32 - b)
    \/ (b < 0 /\ a < MinI32 - b)

\* i32::wrapping_add
WrappingAdd(a, b) ==
    IF ~AddOverflows(a, b) THEN a + b
    ELSE IF b > 0 THEN (a - MaxI32 - 1) + (b - MaxI32 - 1)
    ELSE (a + MaxI32 + 1) + (b + MaxI32 + 1)

----------------------------------------------------------------------------
(* StreamCore: src/src/crypto.rs *)

\* the multiplier 0x6C078965 of the seed expansion
LcgMul == U32(27655, 35173)

\* a variant of NextWord without the `+ 1`
NextWordNoIncrement(w) == [v |-> WrappingMul(w, LcgMul), overflow |-> FALSE]

\* one word of the seed expansion: w.wrapping_mul(0x6C078965) + 1
NextWord(w) == AddOne32(WrappingMul(w, LcgMul))

\* the state of Crypto::init_state from the seed and the three words expanded
\* from it
InitWords(seed, w1, w2, w3) ==
    [st |-> [s0 |-> seed, s1 |-> w1.v, s2 |-> w2.v, s3 |-> w3.v],
     overflow |-> w1.overflow \/ w2.overflow \/ w3.overflow]

\* s3 from s2
InitThird(seed, w1, w2) == InitWords(seed, w1, w2, NextWord(w2.v))

\* s2 from s1
InitSecond(seed, w1) == InitThird(seed, w1, NextWord(w1.v))

\* Crypto::init_state: [st: the state, overflow: whether a `+ 1` overflowed]
CryptoInitState(seed) == InitSecond(seed, NextWord(seed))

\* the end of Crypto::next_u32: the words move down one place and n is both
\* stored in s3 and returned
Rotate(st, n) ==
    [st |-> [s0 |-> st.s1, s1 |-> st.s2, s2 |-> st.s3, s3 |-> n], ret |-> n]

\* the new word from t = s0 ^ (s0 << 11) and s = s3 ^ (s3 >> 19)
Xorshift(st, t, s) == Rotate(st, Xor32(s, Xor32(t, Shr32(t, 8))))

\* a variant of next_u32 that computes t after the words have moved, from s1
NextU32AfterMove(st) ==
    Xorshift(st, Xor32(st.s1, Shl32(st.s1, 11)), Xor32(st.s3, Shr32(st.s3, 19)))

\* Crypto::next_u32: [st: the state after the draw, ret: the value returned]
next_u32(st) ==
    Xorshift(st, Xor32(st.s0, Shl32(st.s0, 11)), Xor32(st.s3, Shr32(st.s3, 19)))

----------------------------------------------------------------------------
(* Arbitrary-precision naturals: sequences of base-10^4 limbs, least         *)
(* significant first, without leading zero limbs (zero is the empty sequence) *)

Base == 100 * 100

RECURSIVE BN(_)
BN(n) == IF n = 0 THEN <<>> ELSE <<n % Base>> \o BN(n \div Base)

RECURSIVE BTrim(_)
BTrim(a) ==
    IF a = <<>> \/ a[Len(a)] # 0 THEN a ELSE BTrim(SubSeq(a, 1, Len(a) - 1))

Limb(a, i) == IF i <= Len(a) THEN a[i] ELSE 0

RECURSIVE BAddFrom(_, _, _, _)
BAddFrom(a, b, i, c) ==
    IF i > Len(a) /\ i > Len(b) THEN (IF c = 0 THEN <<>> ELSE <<c>>)
    ELSE LET x == Limb(a, i) + Limb(b, i) + c
         IN  <<x % Base>> \o BAddFrom(a, b, i + 1, x \div Base)

BAdd(a, b) == BAddFrom(a, b, 1, 0)

\* a - b for a >= b
RECURSIVE BSubFrom(_, _, _, _)
BSubFrom(a, b, i, c) ==
    IF i > Len(a) THEN <<>>
    ELSE LET x == a[i] - Limb(b, i) - c
         IN  <<x % Base>> \o BSubFrom(a, b, i + 1, IF x < 0 THEN 1 ELSE 0)

BSub(a, b) == BTrim(BSubFrom(a, b, 1, 0))

\* -1, 0, 1 as a < b, a = b, a > b
RECURSIVE BCmpFrom(_, _, _)
BCmpFrom(a, b, i) ==
    IF i = 0 THEN 0
    ELSE IF a[i] < b[i] THEN -1
    ELSE IF a[i] > b[i] THEN 1
    ELSE BCmpFrom(a, b, i - 1)

BCmp(a, b) ==
    IF Len(a) < Len(b) THEN -1
    ELSE IF Len(a) > Len(b) THEN 1
    ELSE BCmpFrom(a, b, Len(a))

\* a * k for one limb k
RECURSIVE BMulLimbFrom(_, _, _, _)
BMulLimbFrom(a, k, i, c) ==
    IF i > Len(a) THEN (IF c = 0 THEN <<>> ELSE <<c>>)
    ELSE LET x == a[i] * k + c
         IN  <<x % Base>> \o BMulLimbFrom(a, k, i + 1, x \div Base)

BMulLimb(a, k) == IF k = 0 THEN <<>> ELSE BMulLimbFrom(a, k, 1, 0)

\* a * Base
BShift(a) == IF a = <<>> THEN <<>> ELSE <<0>> \o a

RECURSIVE BMulFrom(_, _, _)
BMulFrom(a, b, i) ==
    IF i > Len(b) THEN <<>>
    ELSE BAdd(BMulLimb(a, b[i]), BShift(BMulFrom(a, b, i + 1)))

BMul(a, b) == IF a = <<>> \/ b = <<>> THEN <<>> ELSE BMulFrom(a, b, 1)

\* a * 10^k
RECURSIVE BMulPow10(_, _)
BMulPow10(a, k) == IF k = 0 THEN a ELSE BMulPow10(BMulLimb(a, 10), k - 1)

RECURSIVE Pow10(_)
Pow10(k) == IF k = 0 THEN 1 ELSE 10 * Pow10(k - 1)

\* the number of times d can be taken from n, and what is left: counts up
\* from q
RECURSIVE BCountSub(_, _, _)
BCountSub(n, d, q) ==
    IF BCmp(n, d) < 0 THEN [q |-> q, r |-> n]
    ELSE BCountSub(BSub(n, d), d, q + 1)

\* <<d, d * 10, ..., d * 10^k>>
RECURSIVE BScales(_, _)
BScales(d, k) ==
    IF k = 0 THEN <<d>> ELSE <<d>> \o BScales(BMulLimb(d, 10), k - 1)

\* BDivFrom: floor(n / ds[1]) and the remainder, one decimal digit at a time
\* from the digit of 10^(i-1) down, where ds[j] = ds[1] * 10^(j-1)
RECURSIVE BDivFrom(_, _, _)
\* the quotient and remainder from the leading digit top.q and those of the
\* lower digits
BDivJoin(top, rest, i) == [q |-> top.q * Pow10(i - 1) + rest.q, r |-> rest.r]

BDivLower(top, ds, i) ==
    IF i = 1 THEN top ELSE BDivJoin(top, BDivFrom(top.r, ds, i - 1), i)

BDivFrom(n, ds, i) == BDivLower(BCountSub(n, ds[i], 0), ds, i)

\* floor(n / d) and the remainder, for a quotient of at most k + 1 digits
\* that fits an integer
BDivDigits(n, d, k) == BDivFrom(n, BScales(d, k), k + 1)

\* the least c >= 0 with n <= d * 10^c, for n > d: counts up from c
RECURSIVE Log10Up(_, _, _)
Log10Up(n, d, c) ==
    IF BCmp(n, d) <= 0 THEN c ELSE Log10Up(n, BMulLimb(d, 10), c + 1)

\* the least c <= 0 with n <= d * 10^c, for 0 < n <= d: counts down from c
RECURSIVE Log10Down(_, _, _)
Log10Down(n, d, c) ==
    IF BCmp(BMulLimb(n, 10), d) <= 0 THEN Log10Down(BMulLimb(n, 10), d, c - 1)
    ELSE c

\* ceil(log10(n / d)) for n, d > 0
CeilLog10(n, d) ==
    IF BCmp(n, d) <= 0 THEN Log10Down(n, d, 0) ELSE Log10Up(n, d, 0)

----------------------------------------------------------------------------
(* f32 and f64 values as exact rationals *)

Rat(neg, num, den) == [neg |-> neg /\ num # <<>>, num |-> num, den |-> den]

\* the integer n as a float
RInt(n) == Rat(n < 0, BN(IF n < 0 THEN -n ELSE n), <<1>>)
\* the float n / d, for integers n and d > 0
RFrac(n, d) == Rat(n < 0, BN(IF n < 0 THEN -n ELSE n), BN(d))

RZero == RInt(0)
ROne == RInt(1)

RIsZero(x) == x.num = <<>>
RNeg(x) == Rat(~x.neg, x.num, x.den)

\* -1, 0, 1 as |x| < |y|, |x| = |y|, |x| > |y|
RCmpAbs(x, y) == BCmp(BMul(x.num, y.den), BMul(y.num, x.den))

\* -1, 0, 1 as x < y, x = y, x > y
RCmp(x, y) ==
    IF x.neg /\ ~y.neg THEN -1
    ELSE IF ~x.neg /\ y.neg THEN 1
    ELSE IF x.neg THEN -RCmpAbs(x, y)
    ELSE RCmpAbs(x, y)

\* x + y, where a / den is |x| and b / den is |y|
RAddOver(x, y, a, b, den) ==
    IF x.neg = y.neg THEN Rat(x.neg, BAdd(a, b), den)
    ELSE IF BCmp(a, b) >= 0 THEN Rat(x.neg, BSub(a, b), den)
    ELSE Rat(y.neg, BSub(b, a), den)

RAdd(x, y) ==
    IF x.den = y.den THEN RAddOver(x, y, x.num, y.num, x.den)
    ELSE RAddOver(x, y, BMul(x.num, y.den), BMul(y.num, x.den), BMul(x.den, y.den))

RSub(x, y) == RAdd(x, RNeg(y))

RMul(x, y) ==
    IF RIsZero(x) \/ RIsZero(y) THEN RZero
    ELSE Rat(x.neg # y.neg, BMul(x.num, y.num), BMul(x.den, y.den))

\* x / y for y # 0
RDiv(x, y) ==
    IF RIsZero(x) THEN RZero
    ELSE Rat(x.neg # y.neg, BMul(x.num, y.den), BMul(x.den, y.num))

\* f32::clamp
RClamp(x, lo, hi) ==
    IF RCmp(x, lo) < 0 THEN lo ELSE IF RCmp(x, hi) > 0 THEN hi ELSE x

\* floor(x) from d = [q: floor(|x|), r: the remainder]
RFloorSigned(x, d) ==
    IF ~x.neg THEN d.q ELSE IF d.r = <<>> THEN -d.q ELSE -d.q - 1

\* floor(x) for |x| < 10^c
RFloorDigits(x, c) ==
    RFloorSigned(x, BDivDigits(x.num, x.den, IF c > 0 THEN c ELSE 0))

\* f32::floor, as an integer
RFloor(x) == IF RIsZero(x) THEN 0 ELSE RFloorDigits(x, CeilLog10(x.num, x.den))

\* the decimal m * 10^(-e), without trailing zeros in m
RECURSIVE Dec(_, _)
Dec(m, e) ==
    IF m = 0 THEN [m |-> 0, e |-> 0]
    ELSE IF m % 10 = 0 THEN Dec(m \div 10, e - 1)
    ELSE [m |-> m, e |-> e]

\* the decimal neg * m * 10^(-shift)
DecSigned(neg, m, shift) == Dec(IF neg THEN -m ELSE m, shift)

\* f64::round of fl.q + fl.r / d: half away from zero
RoundHalfAway(fl, d) ==
    IF BCmp(BMulLimb(fl.r, 2), d) >= 0 THEN fl.q + 1 ELSE fl.q

\* (x * shift_factor).round() / shift_factor, where |x| * shift_factor is n / d
PrecisionRound(x, n, d, decimals, shift) ==
    DecSigned(x.neg, RoundHalfAway(BDivDigits(n, d, decimals), d), shift)

\* the rounding of x at shift = decimals - ceil(log10(|x|))
PrecisionShift(x, decimals, shift) ==
    PrecisionRound(x, IF shift > 0 THEN BMulPow10(x.num, shift) ELSE x.num,
                   IF shift < 0 THEN BMulPow10(x.den, -shift) ELSE x.den,
                   decimals, shift)

\* Crypto::precision_f32: x rounded to `decimals` significant digits
precision_f32(x, decimals) ==
    IF RIsZero(x) \/ decimals = 0 THEN Dec(0, 0)
    ELSE PrecisionShift(x, decimals, decimals - CeilLog10(x.num, x.den))

----------------------------------------------------------------------------
(* Float helpers of src/src/crypto.rs *)

\* 0x7FFFFF: the mask and the divisor of next_f32
FloatD == 8388607
Mask23 == U32(FloatD \div Half, FloatD % Half)

\* a variant of MaskDivide that divides by 2^23
MaskDividePow2(d) ==
    [st |-> d.st, ret |-> RDiv(RInt(AsI32(And32(d.ret, Mask23))), RInt(FloatD + 1))]

\* the f32 of a draw d of next_u32
MaskDivide(d) ==
    [st |-> d.st, ret |-> RDiv(RInt(AsI32(And32(d.ret, Mask23))), RInt(FloatD))]

\* Crypto::next_f32: (next_u32(state) & 0x7FFFFF) as f32 / 0x7FFFFF as f32
next_f32(st) == MaskDivide(next_u32(st))

\* Crypto::lerp
lerp(a, b, t) == RAdd(a, RMul(RSub(b, a), RClamp(t, RZero, ROne)))

\* the end of Crypto::hsv_to_rbg: the clamp of a color that is not hdr
HsvClamp(color, hdr) ==
    IF hdr THEN color
    ELSE <<RClamp(color[1], RZero, ROne), RClamp(color[2], RZero, ROne),
           RClamp(color[3], RZero, ROne), color[4]>>

\* the match on num2 + 1 of Crypto::hsv_to_rbg
HsvMatch(v, num2, num4, num5, num6) ==
    CASE num2 + 1 = 0 -> <<v, num4, num5, ROne>>
      [] num2 + 1 = 1 -> <<v, num6, num4, ROne>>
      [] num2 + 1 = 2 -> <<num5, v, num4, ROne>>
      [] num2 + 1 = 3 -> <<num4, v, num6, ROne>>
      [] num2 + 1 = 4 -> <<num4, num5, v, ROne>>
      [] num2 + 1 = 5 -> <<num6, num4, v, ROne>>
      [] num2 + 1 = 6 -> <<v, num4, num5, ROne>>
      [] num2 + 1 = 7 -> <<v, num6, num4, ROne>>
      [] OTHER -> <<RZero, RZero, RZero, ROne>>

\* a variant of HsvSector that matches on (num2 + 1) mod 8
HsvSectorMod8(s, v, num2, num3, hdr) ==
    HsvClamp(HsvMatch(v, ((num2 + 1) % 8) - 1,
                      RMul(v, RSub(ROne, s)),
                      RMul(v, RSub(ROne, RMul(s, num3))),
                      RMul(v, RSub(ROne, RMul(s, RSub(ROne, num3))))), hdr)

\* num4, num5 and num6 from the sector num2 and the position num3 in it
HsvSector(s, v, num2, num3, hdr) ==
    HsvClamp(HsvMatch(v, num2,
                      RMul(v, RSub(ROne, s)),
                      RMul(v, RSub(ROne, RMul(s, num3))),
                      RMul(v, RSub(ROne, RMul(s, RSub(ROne, num3))))), hdr)

\* num3 = num - num2
HsvSplit(s, v, num, num2, hdr) ==
    HsvSector(s, v, num2, RSub(num, RInt(num2)), hdr)

\* num2 = floor(num)
HsvFloor(s, v, num, hdr) == HsvSplit(s, v, num, RFloor(num), hdr)

\* Crypto::hsv_to_rbg: <<r, g, b, a>>
hsv_to_rbg(h, s, v, hdr) ==
    IF RIsZero(s) THEN <<v, v, v, ROne>>
    ELSE IF RIsZero(v) THEN <<RZero, RZero, RZero, ROne>>
    ELSE HsvFloor(s, v, RMul(h, RInt(6)), hdr)

----------------------------------------------------------------------------
(* The methods of Random: src/src/random.rs.  Each maps the handle's state   *)
(* and the arguments to [st: the state it leaves, ret: the tuple of values   *)
(* returned, panic: whether it panicked]                                     *)

Returns(st, ret) == [st |-> st, ret |-> ret, panic |-> FALSE]
Panics(st) == [st |-> st, ret |-> <<>>, panic |-> TRUE]

\* std::f32::consts::TAU, the f32 0x40C90FDB = 13176795 * 2^-21
TAU == RFrac(13176795, Pow2(21))

\* a variant of InitAssign that leaves the last word of the state as it was
InitAssignThreeWords(st, r, checks) ==
    IF r.overflow /\ checks THEN Panics(st)
    ELSE Returns([r.st EXCEPT !.s3 = st.s3], <<>>)

\* the assignment of Random::init_state, made only if Crypto::init_state
\* returns
InitAssign(st, r, checks) ==
    IF r.overflow /\ checks THEN Panics(st) ELSE Returns(r.st, <<>>)

\* Random::init_state
init_state(st, seed, checks) == InitAssign(st, CryptoInitState(AsU32(seed)), checks)

\* min + x of Random::range_int, after the draw d
RangeIntAdd(min, d, x, checks) ==
    IF AddOverflows(min, x) /\ checks THEN Panics(d.st)
    ELSE Returns(d.st, <<WrappingAdd(min, x)>>)

\* the draw d of Random::range_int reduced below diff
RangeIntDraw(min, diff, d, checks) ==
    RangeIntAdd(min, d, AsI32(RemEuclid32(d.ret, diff)), checks)

\* the branches of Random::range_int on diff
RangeIntDiff(st, min, diff, checks) ==
    IF diff # Zero32 THEN RangeIntDraw(min, diff, next_u32(st), checks)
    ELSE Returns(st, <<min>>)

\* Random::range_int after the swap: diff = (max - min) as u32
RangeIntOrdered(st, min, max, checks) ==
    IF SubOverflows(max, min) /\ checks THEN Panics(st)
    ELSE RangeIntDiff(st, min, AsU32(WrappingSub(max, min)), checks)

\* Random::range_int
range_int(st, min, max, checks) ==
    RangeIntOrdered(st, IF min > max THEN max ELSE min,
                    IF min > max THEN min ELSE max, checks)

\* a variant of Mix that swaps the bounds when min > max
MixSwapped(d, min, max) ==
    IF RCmp(min, max) > 0
    THEN Returns(d.st, RAdd(RMul(RSub(ROne, d.ret), min), RMul(d.ret, max)))
    ELSE Returns(d.st, RAdd(RMul(RSub(ROne, d.ret), max), RMul(d.ret, min)))

\* (1. - next) * max + next * min, for the draw d of next
Mix(d, min, max) ==
    Returns(d.st, RAdd(RMul(RSub(ROne, d.ret), max), RMul(d.ret, min)))

\* Random::range_float_intern
range_float_intern(st, min, max) == Mix(next_f32(st), min, max)

\* the value of r rounded to 7 significant digits
Round7(r) == Returns(r.st, <<precision_f32(r.ret, 7)>>)

\* Random::range_float
range_float(st, min, max) == Round7(range_float_intern(st, min, max))

\* Random::value
value(st) == Round7(next_f32(st))

\* a method body before its first draw
Start(st) == Returns(st, <<>>)

\* the values drawn so far and the draw r made after them
Then(acc, r) == Returns(r.st, Append(acc.ret, r.ret))

\* the next draw of a method body: self.range_float_intern(min, max)
ThenRangeFloat(acc, min, max) == Then(acc, range_float_intern(acc.st, min, max))

\* the next draw of a method body: self.next_f32()
ThenNextF32(acc) == Then(acc, next_f32(acc.st))

\* Random::inside_unit_circle: returns <<theta, radius^2>>, the values of
\* which x and y are the rounded radius * cos(theta) and radius * sin(theta)
inside_unit_circle(st) ==
    ThenRangeFloat(ThenRangeFloat(Start(st), RZero, TAU), RZero, ROne)

\* Random::on_unit_sphere_intern: returns <<dist, rad>>; z is dist, x and y
\* are cos(rad) and sin(rad) times sqrt(1 - dist^2)
on_unit_sphere_intern(st) ==
    ThenRangeFloat(ThenRangeFloat(Start(st), RInt(-1), ROne), RZero, TAU)

\* the point p with its rounded z
RoundZ(p) == Returns(p.st, <<p.ret[1], p.ret[2], precision_f32(p.ret[1], 7)>>)

\* Random::on_unit_sphere: returns <<dist, rad, z>>
on_unit_sphere(st) == RoundZ(on_unit_sphere_intern(st))

\* Random::inside_unit_sphere: returns <<dist, rad, f>>; the point is the
\* one of on_unit_sphere_intern scaled by f^(1/3)
inside_unit_sphere(st) == ThenNextF32(on_unit_sphere_intern(st))

\* Random::rotation: returns <<x, y, z, w>> before the division by the
\* signed magnitude
rotation(st) ==
    ThenRangeFloat(ThenRangeFloat(ThenRangeFloat(ThenRangeFloat(Start(st),
        RInt(-1), ROne), RInt(-1), ROne), RInt(-1), ROne), RInt(-1), ROne)

\* Random::rotation_uniform: returns <<u1, u2, u3>>
rotation_uniform(st) ==
    ThenRangeFloat(ThenRangeFloat(ThenRangeFloat(Start(st),
        RZero, ROne), RZero, TAU), RZero, TAU)

\* the rounded color of Random::color_hsva
ColorRound(st, rgb, alpha) ==
    Returns(st, <<precision_f32(rgb[1], 7), precision_f32(rgb[2], 7),
                  precision_f32(rgb[3], 7), precision_f32(alpha, 7)>>)

\* the color of Random::color_hsva from the bounds a and its four draws
ColorLerp(d, a) ==
    ColorRound(d.st,
               hsv_to_rbg(lerp(a[1], a[2], d.ret[1]), lerp(a[3], a[4], d.ret[2]),
                          lerp(a[5], a[6], d.ret[3]), TRUE),
               lerp(a[7], a[8], d.ret[4]))

\* Random::color_hsva: a is the tuple of the eight bounds
color_hsva(st, a) ==
    ColorLerp(ThenNextF32(ThenNextF32(ThenNextF32(ThenNextF32(Start(st))))), a)

\* Random::color
color(st) ==
    color_hsva(st, <<RZero, ROne, RZero, ROne, RZero, ROne, ROne, ROne>>)

\* Random::color_h
color_h(st, hue_min, hue_max) ==
    color_hsva(st, <<hue_min, hue_max, RZero, ROne, RZero, ROne, ROne, ROne>>)

\* Random::color_hs
color_hs(st, hue_min, hue_max, saturation_min, saturation_max) ==
    color_hsva(st, <<hue_min, hue_max, saturation_min, saturation_max,
                     RZero, ROne, ROne, ROne>>)

\* Random::color_hsv
color_hsv(st, hue_min, hue_max, saturation_min, saturation_max, value_min, value_max) ==
    color_hsva(st, <<hue_min, hue_max, saturation_min, saturation_max,
                     value_min, value_max, ROne, ROne>>)

----------------------------------------------------------------------------
(* The program: two Random handles used by one thread *)

Handles == {"a", "b"}

\* the call recorded before any call is made
NoCall == [op |-> "new", h |-> "a", args |-> <<>>, pre |-> <<>>, ret |-> <<>>,
           panic |-> FALSE]

\* the seconds since the epoch at which the handles are made
Timestamps == [a |-> 1793491200, b |-> 1793491201]

\* Random::new on both handles: the seed is the timestamp
Init ==
    /\ overflow_checks \in BOOLEAN
    /\ \A h \in Handles : ~CryptoInitState(AsU32(Timestamps[h])).overflow
    /\ state = [h \in Handles |-> CryptoInitState(AsU32(Timestamps[h])).st]
    /\ log = [h \in Handles |->
                [seeded |-> TRUE, seed |-> Timestamps[h], calls |-> <<>>]]
    /\ last = NoCall
    /\ panicked = FALSE

\* the step of a call op(args) on handle h with outcome r, which starts the
\* handle's log afresh (fresh = <<the new log>>) or extends it (fresh = <<>>)
Call(h, op, args, r, fresh) ==
    /\ state' = [state EXCEPT ![h] = r.st]
    /\ last' = [op |-> op, h |-> h, args |-> args,
                pre |-> IF fresh # <<>> THEN <<>> ELSE state[h],
                ret |-> r.ret, panic |-> r.panic]
    /\ panicked' = r.panic
    /\ log' = IF r.panic THEN log
              ELSE IF fresh # <<>> THEN [log EXCEPT ![h] = fresh[1]]
              ELSE [log EXCEPT ![h].calls =
                        Append(@, [op |-> op, args |-> args, ret |-> r.ret])]
    /\ UNCHANGED overflow_checks

\* a call may be made while the run has not panicked; bound caps the calls
\* logged on the handle
CanCall(h, bound) == ~panicked /\ Len(log[h].calls) < bound

\* random.init_state(seed)
InitState(h, seed) ==
    /\ ~panicked
    /\ Call(h, "init_state", <<seed>>, init_state(state[h], seed, overflow_checks),
            <<[seeded |-> TRUE, seed |-> seed, calls |-> <<>>]>>)

\* random.state = st: the field is public
SetState(h, st) ==
    /\ ~panicked
    /\ Call(h, "set_state", <<>>, Returns(st, <<>>),
            <<[seeded |-> FALSE, seed |-> 0, calls |-> <<>>]>>)

\* Random::next_u32 (private)
NextU32(h, bound) ==
    /\ CanCall(h, bound)
    /\ Call(h, "next_u32", <<>>, Then(Start(state[h]), next_u32(state[h])), <<>>)

\* Random::next_f32 (private)
NextF32(h, bound) ==
    /\ CanCall(h, bound)
    /\ Call(h, "next_f32", <<>>, ThenNextF32(Start(state[h])), <<>>)

RangeInt(h, min, max, bound) ==
    /\ CanCall(h, bound)
    /\ Call(h, "range_int", <<min, max>>,
            range_int(state[h], min, max, overflow_checks), <<>>)

RangeFloat(h, min, max, bound) ==
    /\ CanCall(h, bound)
    /\ Call(h, "range_float", <<min, max>>,
            range_float(state[h], RInt(min), RInt(max)), <<>>)

Value(h, bound) ==
    /\ CanCall(h, bound)
    /\ Call(h, "value", <<>>, value(state[h]), <<>>)

InsideUnitCircle(h, bound) ==
    /\ CanCall(h, bound)
    /\ Call(h, "inside_unit_circle", <<>>, inside_unit_circle(state[h]), <<>>)

OnUnitSphere(h, bound) ==
    /\ CanCall(h, bound)
    /\ Call(h, "on_unit_sphere", <<>>, on_unit_sphere(state[h]), <<>>)

InsideUnitSphere(h, bound) ==
    /\ CanCall(h, bound)
    /\ Call(h, "inside_unit_sphere", <<>>, inside_unit_sphere(state[h]), <<>>)

Rotation(h, bound) ==
    /\ CanCall(h, bound)
    /\ Call(h, "rotation", <<>>, rotation(state[h]), <<>>)

RotationUniform(h, bound) ==
    /\ CanCall(h, bound)
    /\ Call(h, "rotation_uniform", <<>>, rotation_uniform(state[h]), <<>>)

Color(h, bound) ==
    /\ CanCall(h, bound)
    /\ Call(h, "color", <<>>, color(state[h]), <<>>)

ColorH(h, a, bound) ==
    /\ CanCall(h, bound)
    /\ Call(h, "color_h", a, color_h(state[h], RInt(a[1]), RInt(a[2])), <<>>)

ColorHS(h, a, bound) ==
    /\ CanCall(h, bound)
    /\ Call(h, "color_hs", a,
            color_hs(state[h], RInt(a[1]), RInt(a[2]), RInt(a[3]), RInt(a[4])),
            <<>>)

ColorHSV(h, a, bound) ==
    /\ CanCall(h, bound)
    /\ Call(h, "color_hsv", a,
            color_hsv(state[h], RInt(a[1]), RInt(a[2]), RInt(a[3]), RInt(a[4]),
                      RInt(a[5]), RInt(a[6])), <<>>)

ColorHSVA(h, a, bound) ==
    /\ CanCall(h, bound)
    /\ Call(h, "color_hsva", a,
            color_hsva(state[h], [i \in 1..8 |-> RInt(a[i])]), <<>>)

----------------------------------------------------------------------------
(* The inputs *)

\* the seeds of the tests (src/tests/range_int.rs)
TestSeeds == {0, 1, 358118, 30029247, 719188662}

\* seeds whose expansion meets a product of 0xFFFFFFFF, in the first and in
\* the second word
EdgeSeeds == {1774682003, 1034572074}

Seeds == TestSeeds \cup EdgeSeeds \cup {-1, MinI32}

\* states written through the public field: all words zero; one whose draw
\* is 0xFFFFFFFF; words with their high bits set
Word(hi, lo) == U32(hi, lo)
States == {
    [s0 |-> Zero32, s1 |-> Zero32, s2 |-> Zero32, s3 |-> Zero32],
    [s0 |-> Zero32, s1 |-> Zero32, s2 |-> Zero32, s3 |-> Word(65535, 57344)],
    [s0 |-> Word(65535, 65535), s1 |-> Word(4660, 22136),
     s2 |-> Word(32768, 0), s3 |-> Word(39612, 57072)],
    [s0 |-> Word(32768, 1), s1 |-> Word(1, 32768),
     s2 |-> Word(43690, 21845), s3 |-> Word(65535, 65535)] }

IntArgs == {MinI32, -1, 0, 7, MaxI32}
FloatArgs == (-MaxFloatArg)..MaxFloatArg
HueArgs == (-MaxHue)..MaxHue

\* <<min, max>> pairs for a saturation, value or alpha range
UnitRanges == {<<0, 0>>, <<0, 1>>, <<1, 1>>, <<1, 0>>}

HArgs == HueArgs \X HueArgs
HSArgs == {<<h[1], h[2], s[1], s[2]>> :
              h \in {<<0, 1>>, <<-1, MaxHue>>}, s \in UnitRanges}
HSVArgs == {<<0, 1, s[1], s[2], v[1], v[2]>> :
               s \in {<<0, 0>>, <<0, 1>>}, v \in UnitRanges}
HSVAArgs == {<<h, h, sv[1], sv[1], sv[2], sv[2], a[1], a[2]>> :
                h \in HueArgs, sv \in {<<1, 1>>, <<2, 1>>, <<0, 1>>, <<1, 0>>},
                a \in {<<0, 1>>, <<1, 1>>}}

----------------------------------------------------------------------------
(* Spec: every operation, on handle "a" *)

Next ==
    \E h \in {"a"} :
        \/ \E seed \in Seeds : InitState(h, seed)
        \/ \E st \in States : SetState(h, st)
        \/ NextU32(h, MaxCalls)
        \/ NextF32(h, MaxCalls)
        \/ \E min \in IntArgs, max \in IntArgs : RangeInt(h, min, max, MaxCalls)
        \/ \E min \in FloatArgs, max \in FloatArgs : RangeFloat(h, min, max, MaxCalls)
        \/ Value(h, MaxCalls)
        \/ InsideUnitCircle(h, MaxCalls)
        \/ OnUnitSphere(h, MaxCalls)
        \/ InsideUnitSphere(h, MaxCalls)
        \/ Rotation(h, MaxCalls)
        \/ RotationUniform(h, MaxCalls)
        \/ Color(h, MaxCalls)
        \/ \E a \in HArgs : ColorH(h, a, MaxCalls)
        \/ \E a \in HSArgs : ColorHS(h, a, MaxCalls)
        \/ \E a \in HSVArgs : ColorHSV(h, a, MaxCalls)
        \/ \E a \in HSVAArgs : ColorHSVA(h, a, MaxCalls)

Spec == Init /\ [][Next]_vars

----------------------------------------------------------------------------
(* SpecVectors: the runs of src/tests/range_int.rs, init_state(seed) and then *)
(* range_int(0, i32::MAX), from any state these calls have left               *)

NextVectors ==
    \E h \in Handles :
        \/ \E seed \in TestSeeds : InitState(h, seed)
        \/ RangeInt(h, 0, MaxI32, MaxDraws)

SpecVectors == Init /\ [][NextVectors]_vars

----------------------------------------------------------------------------
(* SpecSeeded: two handles, seeded by init_state and then drawn from; the   *)
(* state is never written through the field                                 *)

SeededSeeds == {0, MinI32, 1774682003}

NextSeeded ==
    \E h \in Handles :
        \/ \E seed \in SeededSeeds : InitState(h, seed)
        \/ NextU32(h, MaxSeededCalls)
        \/ Value(h, MaxSeededCalls)
        \/ \E max \in {0, 7} : RangeInt(h, 0, max, MaxSeededCalls)

SpecSeeded == Init /\ [][NextSeeded]_vars

----------------------------------------------------------------------------
(* Definitions used to state the properties *)

ZeroState == [s0 |-> Zero32, s1 |-> Zero32, s2 |-> Zero32, s3 |-> Zero32]

\* the state st after n draws of next_u32
RECURSIVE Advance(_, _)
Advance(st, n) == IF n = 0 THEN st ELSE Advance(next_u32(st).st, n - 1)

\* the n-th float drawn from st, n >= 1
NthF32(st, n) == next_f32(Advance(st, n - 1)).ret

\* the handle of the last call and the state the call left
After == state[last.h]

\* the natural of a u32
BOfU32(w) == BAdd(BMul(BN(w.hi), BN(Half)), BN(w.lo))

\* the integer of a natural below 2^31
RECURSIVE BToInt(_)
BToInt(a) == IF a = <<>> THEN 0 ELSE a[1] + Base * BToInt(Tail(a))

\* the u32 n mod 2^32 of a natural n < 2^63
ModPow32(n) ==
    LET low == BDivDigits(n, BMul(BN(Half), BN(Half)), 9).r
        halves == BDivDigits(low, BN(Half), 4)
    IN  U32(halves.q, BToInt(halves.r))

\* (w * 0x6C078965 + 1) mod 2^32, computed on naturals
LcgWord(w) == ModPow32(BAdd(BMul(BOfU32(w), BN(1812433253)), <<1>>))

\* the four words the recurrence gives for a seed
LcgState(seed) ==
    [s0 |-> seed, s1 |-> LcgWord(seed), s2 |-> LcgWord(LcgWord(seed)),
     s3 |-> LcgWord(LcgWord(LcgWord(seed)))]

\* bit i of a u32 (bit 0 the least significant); 0 outside 0..31
BitAt(w, i) ==
    IF i < 0 \/ i > 31 THEN 0
    ELSE IF i >= 16 THEN (w.hi \div Pow2(i - 16)) % 2
    ELSE (w.lo \div Pow2(i)) % 2

\* bit i of t = s0 XOR ((s0 << 11) mod 2^32)
TBit(st, i) ==
    IF i > 31 THEN 0 ELSE (BitAt(st.s0, i) + BitAt(st.s0, i - 11)) % 2

\* bit i of n = (s3 XOR (s3 >> 19)) XOR (t XOR (t >> 8))
NBit(st, i) ==
    (BitAt(st.s3, i) + BitAt(st.s3, i + 19) + TBit(st, i) + TBit(st, i + 8)) % 2

\* the t with t XOR (t >> 8) = y
UnfoldShr8(y) ==
    Xor32(Xor32(y, Shr32(y, 8)), Xor32(Shr32(y, 16), Shr32(y, 24)))

\* the x with x XOR (x << 11) = t
UnfoldShl11(t) == Xor32(t, Xor32(Shl32(t, 11), Shl32(Shl32(t, 11), 11)))

\* the state that one draw of next_u32 turns into st
Unstep(st) ==
    [s0 |-> UnfoldShl11(UnfoldShr8(Xor32(st.s3, Xor32(st.s2, Shr32(st.s2, 19))))),
     s1 |-> st.s0, s2 |-> st.s1, s3 |-> st.s2]

\* the public distributions
ColorOps == {"color", "color_h", "color_hs", "color_hsv", "color_hsva"}
Distributions ==
    {"range_int", "range_float", "value", "inside_unit_circle", "on_unit_sphere",
     "inside_unit_sphere", "rotation", "rotation_uniform"} \cup ColorOps

\* the draws the specification states for a call
StatedDraws(op, args) ==
    CASE op = "range_int" -> IF args[1] = args[2] THEN 0 ELSE 1
      [] op \in {"range_float", "value"} -> 1
      [] op \in {"inside_unit_circle", "on_unit_sphere"} -> 2
      [] op \in {"inside_unit_sphere", "rotation_uniform"} -> 3
      [] op \in {"rotation"} \cup ColorOps -> 4

\* u mod 2147483647 for a u32 u = b * 2^31 + x: 2^31 is 1 modulo 2^31 - 1
ModMaxI32(u) ==
    LET x == (u.hi % 32768) * Half + u.lo
        b == u.hi \div 32768
    IN  IF x = MaxI32 THEN b ELSE IF x + b = MaxI32 THEN 0 ELSE x + b

\* the reference sequences of src/tests/range_int.rs
ReferenceVectors ==
    [seed \in TestSeeds |->
        CASE seed = 0 ->
               <<1900725526, 1900725046, 559298752, 107093222, 556206921>>
          [] seed = 1 ->
               <<1543501227, 199432971, 752298619, 138080315, 743183923>>
          [] seed = 358118 ->
               <<2136278644, 1595074600, 1928749762, 1103880771, 377109161>>
          [] seed = 30029247 ->
               <<607408785, 1212241089, 1349650812, 1000986081, 1024434390>>
          [] seed = 719188662 ->
               <<1596120957, 890817289, 1727690525, 42421281, 1268234803>>]

\* the calls logged on g and on h up to the n-th are the same calls
SameCalls(g, h, n) ==
    /\ n <= Len(log[g].calls)
    /\ n <= Len(log[h].calls)
    /\ \A i \in 1..n :
          /\ log[g].calls[i].op = log[h].calls[i].op
          /\ log[g].calls[i].args = log[h].calls[i].args

\* the eight bounds of a color call
ColorBounds(op, args) ==
    CASE op = "color" -> <<0, 1, 0, 1, 0, 1, 1, 1>>
      [] op = "color_h" -> <<args[1], args[2], 0, 1, 0, 1, 1, 1>>
      [] op = "color_hs" -> <<args[1], args[2], args[3], args[4], 0, 1, 1, 1>>
      [] op = "color_hsv" ->
             <<args[1], args[2], args[3], args[4], args[5], args[6], 1, 1>>
      [] op = "color_hsva" -> args

\* hue (i = 1), saturation (i = 2) and value (i = 3) of the last color call
Component(i) ==
    lerp(RInt(ColorBounds(last.op, last.args)[2 * i - 1]),
         RInt(ColorBounds(last.op, last.args)[2 * i]), NthF32(last.pre, i))

\* the channels of the sector formulas at index idx in 0..7
SectorChannels(idx, s, v, frac) ==
    LET p == RMul(v, RSub(ROne, s))
        q == RMul(v, RSub(ROne, RMul(s, frac)))
        t == RMul(v, RSub(ROne, RMul(s, RSub(ROne, frac))))
    IN  CASE idx \in {0, 6} -> <<v, p, q>>
          [] idx \in {1, 7} -> <<v, t, p>>
          [] idx = 2 -> <<q, v, p>>
          [] idx = 3 -> <<p, v, t>>
          [] idx = 4 -> <<p, q, v>>
          [] idx = 5 -> <<t, p, v>>

Black == <<RZero, RZero, RZero>>

\* floor(h * 6) + 1 and the fractional part of h * 6
SectorIndex(h) == RFloor(RMul(h, RInt(6))) + 1
SectorFrac(h) == RSub(RMul(h, RInt(6)), RInt(RFloor(RMul(h, RInt(6)))))

\* the channels when the formula is selected by floor(h * 6) + 1, black
\* outside 0..7
ChannelsByIndex(h, s, v) ==
    IF RIsZero(s) THEN <<v, v, v>>
    ELSE IF RIsZero(v) THEN Black
    ELSE IF SectorIndex(h) \in 0..7
         THEN SectorChannels(SectorIndex(h), s, v, SectorFrac(h))
    ELSE Black

\* the channels when the formula is selected by (floor(h * 6) + 1) mod 8
ChannelsByIndexMod8(h, s, v) ==
    IF RIsZero(s) THEN <<v, v, v>>
    ELSE IF RIsZero(v) THEN Black
    ELSE SectorChannels(SectorIndex(h) % 8, s, v, SectorFrac(h))

\* the red, green and blue of the last call are the rounded channels c
ReturnsChannels(c) ==
    /\ ~last.panic
    /\ \A i \in 1..3 : last.ret[i] = precision_f32(c[i], 7)

----------------------------------------------------------------------------
(* The properties *)

\* C1, as stated: for every seed, init_state completes and leaves the state
\* s0 = seed, s[i] = (s[i-1] * 0x6C078965 + 1) mod 2^32.  (Spec)
C1_InitStateExpandsEverySeed ==
    last.op = "init_state" =>
        /\ ~last.panic
        /\ After = LcgState(AsU32(last.args[1]))

\* C2: one next_u32 call on (s0, s1, s2, s3) leaves (s1, s2, s3, n) and
\* returns n, where n = (s3 XOR (s3 >> 19)) XOR (t XOR (t >> 8)) and
\* t = s0 XOR (s0 << 11) come from the words before the call.  (Spec)
C2_NextU32Step ==
    last.op = "next_u32" =>
        /\ ~last.panic
        /\ After.s0 = last.pre.s1
        /\ After.s1 = last.pre.s2
        /\ After.s2 = last.pre.s3
        /\ IsU32(After.s3)
        /\ \A i \in 0..31 : BitAt(After.s3, i) = NBit(last.pre, i)
        /\ last.ret = <<After.s3>>

\* C2's case: a draw from a state whose s0 loses bits in the shift by 11 and
\* whose s3 has bits above bit 19
C2_DrawShiftsBitsOut ==
    /\ last.op = "next_u32"
    /\ last.pre.s0.hi >= 32768
    /\ last.pre.s3.hi >= 32768
    /\ After.s3 # Zero32

\* C3, as stated: every distribution call advances the state by exactly the
\* stated number of next_u32 steps, whatever its arguments.  (Spec)
C3_CallAdvancesByStatedDraws ==
    last.op \in Distributions =>
        After = Advance(last.pre, StatedDraws(last.op, last.args))

\* C4: after init_state(seed) for a seed of the tests, the first five
\* range_int(0, 2147483647) results are the reference values, each the i-th
\* raw u32 of the stream modulo 2147483647.  (SpecVectors)
C4_RangeIntReferenceVectors ==
    \A h \in Handles :
        (log[h].seeded /\ log[h].seed \in TestSeeds) =>
            \A i \in 1..Len(log[h].calls) :
                i <= Len(ReferenceVectors[log[h].seed]) =>
                    /\ log[h].calls[i].ret = <<ReferenceVectors[log[h].seed][i]>>
                    /\ log[h].calls[i].ret[1] =
                         ModMaxI32(next_u32(Advance(
                             CryptoInitState(AsU32(log[h].seed)).st, i - 1)).ret)

\* C4's case: the fifth draw after init_state(719188662) has been made
C4_FifthDrawMade ==
    \E h \in Handles :
        /\ log[h].seeded
        /\ log[h].seed = 719188662
        /\ Len(log[h].calls) >= 5
        /\ log[h].calls[5].ret = <<1268234803>>

\* C5, as stated: for all min <= max, range_int(min, max) completes and
\* returns r with min <= r < max, or min when min = max.  (Spec)
C5_RangeIntCompletesInRange ==
    (last.op = "range_int" /\ last.args[1] <= last.args[2]) =>
        /\ ~last.panic
        /\ IF last.args[1] = last.args[2] THEN last.ret = <<last.args[1]>>
           ELSE last.args[1] <= last.ret[1] /\ last.ret[1] < last.args[2]

\* C6: two handles that ran init_state with the same seed and then the same
\* calls have returned the same values at every call and, after equally many
\* calls, hold the same state, whatever their states before init_state.
\* (SpecSeeded)
C6_SameSeedSameCallsSameResults ==
    \A g, h \in Handles :
        (log[g].seeded /\ log[h].seeded /\ log[g].seed = log[h].seed) =>
            /\ \A n \in 1..Len(log[g].calls) :
                  SameCalls(g, h, n) => log[g].calls[n].ret = log[h].calls[n].ret
            /\ (Len(log[g].calls) = Len(log[h].calls)
                    /\ SameCalls(g, h, Len(log[g].calls)))
                  => state[g] = state[h]

\* C6's case: both handles were made at different times, ran
\* init_state(0) and then the same two calls
C6_TwoHandlesRanSameCalls ==
    /\ log["a"].seeded /\ log["b"].seeded
    /\ log["a"].seed = 0 /\ log["b"].seed = 0
    /\ Len(log["a"].calls) >= 2
    /\ Len(log["b"].calls) = Len(log["a"].calls)
    /\ SameCalls("a", "b", 2)
    /\ log["a"].calls[1].op # log["a"].calls[2].op

C8_NextF32UnitInterval ==
    last.op = "next_f32" =>
        LET u == next_u32(last.pre).ret
            k == (u.hi % 128) * Half + u.lo
            f == last.ret[1]
        IN  /\ ~last.panic
            /\ After = Advance(last.pre, 1)
            /\ 0 <= k /\ k <= FloatD
            /\ RCmp(f, RFrac(k, FloatD)) = 0
            /\ RCmp(f, RZero) >= 0 /\ RCmp(f, ROne) <= 0
            /\ RCmp(f, RZero) = 0 <=> k = 0
            /\ RCmp(f, ROne) = 0 <=> k = FloatD

\* C8's case: a draw whose low 23 bits are all set and whose upper bits are
\* not all clear, returning 1
C8_NextF32ReturnsOne ==
    /\ last.op = "next_f32"
    /\ After.s3.hi % 128 = 127 /\ After.s3.lo = Half - 1
    /\ After.s3.hi >= 128
    /\ RCmp(last.ret[1], ROne) = 0

\* C9, amended: with s # 0 and v # 0 the channel formula is selected by
\* floor(h * 6) + 1 itself: the table applies when this index is in 0..7,
\* and for every other index (h >= 7/6 or h < -1/6) the color is the black
\* fallback (0, 0, 0, 1).  (Spec)
C9_SectorByIndexElseBlack ==
    last.op \in ColorOps =>
        ReturnsChannels(ChannelsByIndex(Component(1), Component(2), Component(3)))

\* C9's case: a color call with a hue of 7/6 or more, s # 0 and v # 0, that
\* returns black
C9_BlackBeyondRing ==
    /\ last.op \in ColorOps
    /\ SectorIndex(Component(1)) > 7
    /\ ~RIsZero(Component(2)) /\ ~RIsZero(Component(3))
    /\ \A i \in 1..3 : last.ret[i] = Dec(0, 0)

\* C9, as stated: the channel formula is selected by (floor(h * 6) + 1) mod 8
\* for every hue, and the black fallback is never selected.  (Spec)
C9_SectorByIndexMod8 ==
    last.op \in ColorOps =>
        ReturnsChannels(ChannelsByIndexMod8(Component(1), Component(2), Component(3)))

\* C10: the four words of a seeded handle are never all zero, through
\* init_state of any seed and any draws after it; the next_u32 step can be
\* undone, so no other state steps to the all-zero state, which it fixes.
\* (SpecSeeded)
C10_SeededStateNeverZero ==
    /\ \A h \in Handles : log[h].seeded => state[h] # ZeroState
    /\ (last.op \in {"next_u32", "value"} /\ ~last.panic) => Unstep(After) = last.pre
    /\ next_u32(ZeroState).st = ZeroState

\* C10's case: init_state(0), whose s0 is zero, followed by two draws
C10_SeedZeroDrawnTwice ==
    \E h \in Handles :
        /\ log[h].seeded
        /\ log[h].seed = 0
        /\ Len(log[h].calls) >= 2
        /\ \A i \in 1..2 : log[h].calls[i].op \in {"next_u32", "value"}
        /\ Unstep(Unstep(state[h])).s0 = Zero32

=============================================================================
